---- MODULE Spec2Model ----
(***************************************************************************)
(* Model of kcp-logs (src/main.go): a reader of a framed, zstd-compressed  *)
(* container of OTLP-like log batches.  run() loops over the frames,       *)
(* decodes each batch, and for every log record parses its "time" and      *)
(* "fluent.tag" attributes, applies the since/prefix filters and prints    *)
(* one line per matching record.                                           *)
(*                                                                         *)
(* Strings are sequences of one-character strings, so that prefix tests,   *)
(* Cut, Split and LastIndex are computed character by character as the Go  *)
(* library computes them.                                                  *)
(***************************************************************************)
EXTENDS Integers, Sequences, FiniteSets, TLC

(***************************************************************************)
(* Bounds of the model.                                                    *)
(***************************************************************************)
\* longest generated text after the fixed fluent-tag prefix
MaxBody == 4
\* largest wall-clock reading (one unit is five minutes)
MaxNow == 3
\* largest number of nodes (resourceLogs, scopeLogs, logRecords) of a generated batch
MaxNodes == 6
\* largest declared payload length of a generated frame
MaxSize == 2

(***************************************************************************)
(* Go strings library, on sequences of characters.                         *)
(***************************************************************************)
Min(S) == CHOOSE x \in S : \A y \in S : x <= y
Max(S) == CHOOSE x \in S : \A y \in S : x >= y

\* s[from:] and s[:to] with Go's 0-based, half-open indices
SliceFrom(s, from) == SubSeq(s, from + 1, Len(s))
SliceTo(s, to) == SubSeq(s, 1, to)

\* the 0-based positions at which sep occurs in s
Occurrences(s, sep) ==
    { i \in 0..(Len(s) - Len(sep)) : SubSeq(s, i + 1, i + Len(sep)) = sep }

\* strings.Index: first occurrence, or -1
Index(s, sep) == IF Occurrences(s, sep) = {} THEN -1 ELSE Min(Occurrences(s, sep))

\* strings.LastIndex: last occurrence, or -1
LastIndex(s, sep) == IF Occurrences(s, sep) = {} THEN -1 ELSE Max(Occurrences(s, sep))

\* strings.Cut: the text before and after the first occurrence of sep
Cut(s, sep) ==
    LET i == Index(s, sep)
    IN  IF i < 0
        THEN [before |-> s, after |-> <<>>, found |-> FALSE]
        ELSE [before |-> SliceTo(s, i), after |-> SliceFrom(s, i + Len(sep)), found |-> TRUE]

\* strings.Split with a non-empty separator: always at least one token
RECURSIVE Split(_, _)
Split(s, sep) ==
    LET i == Index(s, sep)
    IN  IF i < 0
        THEN <<s>>
        ELSE <<SliceTo(s, i)>> \o Split(SliceFrom(s, i + Len(sep)), sep)

\* strings.HasPrefix
HasPrefix(s, prefix) ==
    Len(s) >= Len(prefix) /\ SliceTo(s, Len(prefix)) = prefix

(***************************************************************************)
(* parseFluentTag                                                          *)
(***************************************************************************)
\* "kube.var.log.containers."
TagPrefix ==
    <<"k","u","b","e",".","v","a","r",".","l","o","g",".",
      "c","o","n","t","a","i","n","e","r","s",".">>

NoTag == [namespace |-> <<>>, pod |-> <<>>, container |-> <<>>]

\* tokens[2][:containerEndIndex]: a negative end index is a run-time panic
ContainerSlice(token, containerEndIndex) ==
    IF containerEndIndex < 0
    THEN [panic |-> TRUE, s |-> <<>>]
    ELSE [panic |-> FALSE, s |-> SliceTo(token, containerEndIndex)]

\* outcome "ok" (tag), "error" (returned err) or "panic" (slice bounds out of range)
parseFluentTag(tag) ==
    LET cut == Cut(tag, TagPrefix)
        tokens == Split(cut.after, <<"_">>)
    IN  IF ~cut.found
        THEN [outcome |-> "error", tag |-> NoTag]
        ELSE IF Len(tokens) # 3
        THEN [outcome |-> "error", tag |-> NoTag]
        ELSE LET containerEndIndex == LastIndex(tokens[3], <<"-">>)
                 container == ContainerSlice(tokens[3], containerEndIndex)
             IN  IF container.panic
                 THEN [outcome |-> "panic", tag |-> NoTag]
                 ELSE [outcome |-> "ok",
                       tag |-> [namespace |-> tokens[2],
                                pod |-> tokens[1],
                                container |-> container.s]]

(***************************************************************************)
(* matches                                                                 *)
(***************************************************************************)
\* a filter that leaves out the container criterion
matchesWithoutContainer(tag, by) ==
    IF by.namespace # <<>> /\ ~HasPrefix(tag.namespace, by.namespace)
    THEN FALSE
    ELSE IF by.pod # <<>> /\ ~HasPrefix(tag.pod, by.pod)
    THEN FALSE
    ELSE TRUE

matches(tag, by) ==
    IF by.namespace # <<>> /\ ~HasPrefix(tag.namespace, by.namespace)
    THEN FALSE
    ELSE IF by.pod # <<>> /\ ~HasPrefix(tag.pod, by.pod)
    THEN FALSE
    ELSE IF by.container # <<>> /\ ~HasPrefix(tag.container, by.container)
    THEN FALSE
    ELSE TRUE

(***************************************************************************)
(* Log records.  A JSON value object (map[string]any) is modelled by what  *)
(* its "stringValue" entry holds: kind "string" with the text s, or kind   *)
(* "other" when the entry is missing or is not a JSON string.              *)
(***************************************************************************)
StringValue(s) == [kind |-> "string", s |-> s]
OtherValue == [kind |-> "other", s |-> <<>>]

Attr(key, value) == [Key |-> key, Value |-> value]

logMessage(body) ==
    IF body.kind = "string" THEN body.s ELSE <<>>

\* the first attribute with the key whose value holds a string; "" otherwise
RECURSIVE stringAttributeByKey(_, _)
stringAttributeByKey(attributes, key) ==
    IF attributes = <<>>
    THEN <<>>
    ELSE LET attr == Head(attributes)
         IN  IF attr.Key # key
             THEN stringAttributeByKey(Tail(attributes), key)
             ELSE IF attr.Value.kind = "string"
             THEN attr.Value.s
             ELSE stringAttributeByKey(Tail(attributes), key)

(***************************************************************************)
(* Time.  One unit is five minutes.  An RFC-3339 text is modelled by a     *)
(* one-digit wall-clock reading followed by a zone: "Z", or a sign and a   *)
(* one-digit offset.  A time.Time keeps the wall reading and the offset;   *)
(* its instant is wall - off.                                              *)
(***************************************************************************)
Digits == <<"0", "1", "2", "3", "4", "5", "6", "7", "8", "9">>
DigitChars == { Digits[i] : i \in 1..Len(Digits) }
DigitVal(c) == (CHOOSE i \in 1..Len(Digits) : Digits[i] = c) - 1

ZeroTime == [wall |-> 0, off |-> 0]

\* time.Parse(time.RFC3339, s)
ParseRFC3339(s) ==
    IF Len(s) = 2 /\ s[1] \in DigitChars /\ s[2] = "Z"
    THEN [err |-> FALSE, t |-> [wall |-> DigitVal(s[1]), off |-> 0]]
    ELSE IF Len(s) = 3 /\ s[1] \in DigitChars /\ s[2] \in {"+", "-"} /\ s[3] \in DigitChars
    THEN [err |-> FALSE,
          t |-> [wall |-> DigitVal(s[1]),
                 off |-> IF s[2] = "+" THEN DigitVal(s[3]) ELSE 0 - DigitVal(s[3])]]
    ELSE [err |-> TRUE, t |-> ZeroTime]

Instant(t) == t.wall - t.off

\* a comparison that also holds of equal instants
NotAfter(t, u) == Instant(t) <= Instant(u)

\* Time.Before: strictly earlier instant
Before(t, u) == Instant(t) < Instant(u)

\* a time check that is applied whatever since is
SinceAlways(fl) == TRUE

\* fl.since != time.Duration(0)
SinceActive(fl) == fl.since # 0

\* time.Now().UTC().Add(-1 * fl.since)
FromTimestamp(clock, since) == [wall |-> clock - since, off |-> 0]

\* Time.String(), as %v prints it: the wall reading and the offset
FormatTime(t) ==
    <<ToString(t.wall), " ", (IF t.off < 0 THEN "-" ELSE "+"),
      ToString(IF t.off < 0 THEN 0 - t.off ELSE t.off)>>

\* fmt.Fprintf(out, "%v/%v\t%v\t%v\t%v\n", ...)
FormatLine(tag, timestamp, message) ==
    tag.namespace \o <<"/">> \o tag.pod \o <<"\t">> \o tag.container \o <<"\t">>
        \o FormatTime(timestamp) \o <<"\t">> \o message \o <<"\n">>

(***************************************************************************)
(* The body of the innermost loop of run, for one log record.              *)
(***************************************************************************)
Skip(why) == [outcome |-> why, line |-> <<>>]

ProcessRecord(logRecord, fl, clock) ==
    LET message == logMessage(logRecord.body)
        rawTimestamp == stringAttributeByKey(logRecord.attributes, "time")
        parsed == ParseRFC3339(rawTimestamp)
        rawTag == stringAttributeByKey(logRecord.attributes, "fluent.tag")
        parsedTag == parseFluentTag(rawTag)
    IN  IF parsed.err
        THEN Skip("skip_time")
        ELSE IF SinceActive(fl) /\ Before(parsed.t, FromTimestamp(clock, fl.since))
        THEN Skip("skip_since")
        ELSE IF parsedTag.outcome = "panic"
        THEN Skip("panic")
        ELSE IF parsedTag.outcome = "error"
        THEN Skip("skip_tag")
        ELSE IF matches(parsedTag.tag, fl)
        THEN [outcome |-> "emit", line |-> FormatLine(parsedTag.tag, parsed.t, message)]
        ELSE Skip("skip_match")

(***************************************************************************)
(* Container files.  A file is a sequence of frames, each a 4-byte length  *)
(* and a payload of that many bytes, with `missing` bytes cut off its end. *)
(* The payload is modelled by what zstd and json.Unmarshal make of it:     *)
(* "corrupt" (zstd fails), "badjson" (Unmarshal fails) or "batch".         *)
(***************************************************************************)
\* binary.Read(in, binary.BigEndian, &sizeBuf) reads len(sizeBuf) bytes
SizeBufLen == 4

Batch(resourceLogs) == [kind |-> "batch", resourceLogs |-> resourceLogs]
Corrupt == [kind |-> "corrupt", resourceLogs |-> <<>>]
BadJSON == [kind |-> "badjson", resourceLogs |-> <<>>]

Frame(size, content) == [size |-> size, content |-> content]

RECURSIVE TotalBytes(_)
TotalBytes(frames) ==
    IF frames = <<>> THEN 0
    ELSE SizeBufLen + Head(frames).size + TotalBytes(Tail(frames))

FileLen(f) == TotalBytes(f.frames) - f.missing

\* io.ReadFull of n bytes with avail bytes left: EOF only when nothing was read
ReadFull(n, avail) ==
    IF n = 0 THEN "nil"
    ELSE IF avail = 0 THEN "EOF"
    ELSE IF avail < n THEN "ErrUnexpectedEOF"
    ELSE "nil"

\* decompressChunk, with `consumed` whole frames already read from the file
decompressChunk(f, consumed) ==
    LET pos == TotalBytes(SubSeq(f.frames, 1, consumed))
        availSize == FileLen(f) - pos
        sizeErr == ReadFull(SizeBufLen, availSize)
    IN  IF sizeErr # "nil"
        THEN [err |-> sizeErr, content |-> Corrupt]
        ELSE LET frame == f.frames[consumed + 1]
                 dataErr == ReadFull(frame.size, availSize - SizeBufLen)
             IN  IF dataErr # "nil"
                 THEN [err |-> dataErr, content |-> Corrupt]
                 ELSE IF frame.content.kind = "corrupt"
                 THEN [err |-> "zstd", content |-> Corrupt]
                 ELSE [err |-> "nil", content |-> frame.content]

\* the order in which the three nested range loops visit the records
RECURSIVE Concat(_)
Concat(seqs) == IF seqs = <<>> THEN <<>> ELSE Head(seqs) \o Concat(Tail(seqs))

ScopeRecords(resourceLog) ==
    Concat([j \in 1..Len(resourceLog.scopeLogs) |-> resourceLog.scopeLogs[j].logRecords])

\* a traversal that visits the resourceLogs last to first
LoopOrderBackwards(resourceLogs) ==
    Concat([i \in 1..Len(resourceLogs) |->
              ScopeRecords(resourceLogs[Len(resourceLogs) + 1 - i])])

LoopOrder(resourceLogs) ==
    Concat([i \in 1..Len(resourceLogs) |-> ScopeRecords(resourceLogs[i])])

(***************************************************************************)
(* Inputs: the files and flags the runs are checked on.                    *)
(***************************************************************************)
SeqsUpTo(S, n) == UNION { [1..k -> S] : k \in 0..n }

Record(body, attributes) == [body |-> body, attributes |-> attributes]

\* a record with a string body and string "time" and "fluent.tag" attributes
PlainRecord(timeText, tagText, message) ==
    Record(StringValue(message),
           <<Attr("time", StringValue(timeText)), Attr("fluent.tag", StringValue(tagText))>>)

\* a file of one complete frame holding one record
OneRecordFile(logRecord) ==
    [frames |-> <<Frame(1, Batch(<<[scopeLogs |-> <<[logRecords |-> <<logRecord>>]>>]>>))>>,
     missing |-> 0]

NoFilter == [namespace |-> <<>>, pod |-> <<>>, container |-> <<>>, since |-> 0]

Input(fl, f) == [fl |-> fl, file |-> f]

\* fluent tags: every text of up to MaxBody characters after the prefix,
\* with and without leading text, and the same texts without the prefix
TagAlphabet == {"a", "_", "-"}
TagBodies == SeqsUpTo(TagAlphabet, MaxBody)
GenTags ==
    { lead \o TagPrefix \o body : lead \in {<<>>, <<"x", ".">>}, body \in TagBodies }
        \cup { body \in TagBodies : Len(body) >= MaxBody - 1 }

TagInputs ==
    { Input(NoFilter, OneRecordFile(PlainRecord(<<"1", "Z">>, tag, <<"m">>))) : tag \in GenTags }

\* prefix filters against tags whose fields differ in case and length
Names == { <<"a">>, <<"A">>, <<"a", "b">> }
Criteria == { <<>>, <<"a">>, <<"A">>, <<"a", "b">>, <<"a", "b", "c">> }
NamedTag(pod, namespace, container) ==
    TagPrefix \o pod \o <<"_">> \o namespace \o <<"_">> \o container \o <<"-", "i", "d">>

FilterInputs ==
    { Input([namespace |-> n, pod |-> p, container |-> c, since |-> 0],
            OneRecordFile(PlainRecord(<<"1", "Z">>, NamedTag(tp, tn, tc), <<"m">>))) :
        n \in Criteria, p \in Criteria, c \in Criteria,
        tp \in {<<"a">>, <<"a", "b">>}, tn \in Names, tc \in {<<"A">>, <<"a", "b">>} }

\* "time" attributes: absent, unparseable, and instants around the clock readings
GoodTag == NamedTag(<<"p">>, <<"n">>, <<"c">>)
TimeTexts ==
    { <<Digits[w + 1], "Z">> : w \in 0..MaxNow }
        \cup { <<Digits[w + 1], "+", "1">> : w \in 0..MaxNow }
        \cup { <<>>, <<"x">>, <<"1">> }
Sinces == {0, 1, 3}

TimeInputs ==
    { Input([NoFilter EXCEPT !.since = d], OneRecordFile(PlainRecord(t, GoodTag, <<"m">>))) :
        d \in Sinces, t \in TimeTexts }

\* attribute lists of unexpected shape
NoHyphenTag == TagPrefix \o <<"p", "_", "n", "_", "c">>
ShapedAttributes ==
    { <<>>,
      <<Attr("time", OtherValue), Attr("fluent.tag", StringValue(GoodTag))>>,
      <<Attr("time", OtherValue), Attr("time", StringValue(<<"1", "Z">>)),
        Attr("fluent.tag", OtherValue), Attr("fluent.tag", StringValue(GoodTag))>>,
      <<Attr("fluent.tag", StringValue(GoodTag)), Attr("other", StringValue(<<"o">>)),
        Attr("time", StringValue(<<"1", "Z">>)), Attr("time", StringValue(<<"x">>))>>,
      <<Attr("time", StringValue(<<"1", "Z">>)), Attr("fluent.tag", OtherValue)>> }

AttributeInputs ==
    { Input(NoFilter, OneRecordFile(Record(body, attrs))) :
        body \in {StringValue(<<"m">>), OtherValue}, attrs \in ShapedAttributes }

\* framing: declared sizes, payload kinds, and every number of bytes cut off the end
SmallBatch == Batch(<<[scopeLogs |-> <<[logRecords |-> <<PlainRecord(<<"1", "Z">>, GoodTag, <<"m">>)>>]>>]>>)
SizedFrames ==
    { Frame(n, c) : n \in 1..MaxSize, c \in {SmallBatch, Corrupt, BadJSON} }
        \cup { Frame(0, c) : c \in {Corrupt, BadJSON} }
FramingInputs ==
    UNION { { Input(NoFilter, [frames |-> front \o <<lastFrame>>, missing |-> cut]) :
                cut \in 0..(SizeBufLen + lastFrame.size - 1) } :
            front \in {<<>>, <<Frame(1, SmallBatch)>>}, lastFrame \in SizedFrames }

\* nesting: every batch of up to MaxNodes resourceLogs, scopeLogs and records
RecordM1 == PlainRecord(<<"1", "Z">>, GoodTag, <<"m", "1">>)
RecordM2 == PlainRecord(<<"2", "Z">>, GoodTag, <<"m", "2">>)
RecordNoPrefix == PlainRecord(<<"1", "Z">>, <<"p", "_", "n", "_", "c", "-", "i">>, <<"m", "3">>)
RecordNoHyphen == PlainRecord(<<"1", "Z">>, NoHyphenTag, <<"m", "4">>)
NestedRecords == {RecordM1, RecordM2}
FlatRecords == NestedRecords \cup {RecordNoPrefix, RecordNoHyphen}

RECURSIVE Forest(_, _), Trees(_, _)
\* the sequences of trees rooted at `level` with n nodes in all
Forest(level, n) ==
    IF n = 0 THEN {<<>>}
    ELSE UNION { { <<t>> \o rest : t \in Trees(level, k), rest \in Forest(level, n - k) } :
                 k \in 1..n }
\* level 1: resourceLogs, 2: scopeLogs, 3: logRecords
Trees(level, k) ==
    CASE level = 3 -> IF k = 1 THEN NestedRecords ELSE {}
      [] level = 2 -> { [logRecords |-> c] : c \in Forest(3, k - 1) }
      [] OTHER -> { [scopeLogs |-> c] : c \in Forest(2, k - 1) }

NestedInputs ==
    { Input(NoFilter, [frames |-> <<Frame(1, Batch(resourceLogs))>>, missing |-> 0]) :
        resourceLogs \in UNION { Forest(1, n) : n \in 0..MaxNodes } }

\* no frame, and two frames, each corrupt, not JSON, or a batch of up to two records
FlatFrames ==
    { Frame(1, Batch(<<[scopeLogs |-> <<[logRecords |-> rs]>>]>>)) :
        rs \in SeqsUpTo(FlatRecords, 2) }
        \cup {Frame(1, Corrupt), Frame(1, BadJSON)}
TwoFrameInputs ==
    { Input(NoFilter, [frames |-> <<f1, f2>>, missing |-> 0]) :
        f1 \in FlatFrames, f2 \in FlatFrames }
        \cup { Input(NoFilter, [frames |-> <<>>, missing |-> 0]) }

\* the end-to-end example: tag web-1_prod_app-deadbeef.log, message "boot ok"
ExampleTag == TagPrefix \o
    <<"w","e","b","-","1","_","p","r","o","d","_","a","p","p","-",
      "d","e","a","d","b","e","e","f",".","l","o","g">>
ExampleMessage == <<"b","o","o","t"," ","o","k">>
ExampleRecord ==
    Record(StringValue(ExampleMessage), <<Attr("fluent.tag", StringValue(ExampleTag))>>)
ExampleTimedRecord == PlainRecord(<<"1", "Z">>, ExampleTag, ExampleMessage)
ExampleInputs ==
    { Input(NoFilter, OneRecordFile(r)) : r \in {ExampleRecord, ExampleTimedRecord} }

Inputs ==
    TagInputs \cup FilterInputs \cup TimeInputs \cup AttributeInputs
        \cup FramingInputs \cup NestedInputs \cup TwoFrameInputs \cup ExampleInputs

(***************************************************************************)
(* State of two successive runs of the program on the same file and flags. *)
(***************************************************************************)
VARIABLES
    fl,          \* the parsed flags: prefix criteria and since
    file,        \* the container file
    now,         \* the wall clock, as time.Now() reads it
    pc,          \* "loop", "returned" (run returned) or "panicked"
    result,      \* what run returned: "nil" or the error
    consumed,    \* whole frames read from the file so far
    pending,     \* records of the current batch not yet visited, in loop order
    out,         \* the lines written to out
    trace,       \* the records visited in this run, with what became of each
    lastClock,   \* the clock reading at the last visited record
    runNo,       \* 1 in the first run, 2 in the second
    prevOut,     \* the first run's output, once the second run has started
    prevResult   \* the first run's result, once the second run has started

vars == <<fl, file, now, pc, result, consumed, pending, out, trace, lastClock,
          runNo, prevOut, prevResult>>

Init ==
    /\ \E in \in Inputs : fl = in.fl /\ file = in.file
    /\ now \in 0..MaxNow
    /\ pc = "loop"
    /\ result = "none"
    /\ consumed = 0
    /\ pending = <<>>
    /\ out = <<>>
    /\ trace = <<>>
    /\ lastClock = 0
    /\ runNo = 1
    /\ prevOut = <<>>
    /\ prevResult = "none"

\* the head of the for loop: decompressChunk, then json.Unmarshal
ReadChunk ==
    /\ pc = "loop"
    /\ pending = <<>>
    /\ LET chunk == decompressChunk(file, consumed)
       IN  IF chunk.err = "EOF"
           THEN /\ pc' = "returned"
                /\ result' = "nil"
                /\ UNCHANGED <<consumed, pending>>
           ELSE IF chunk.err # "nil"
           THEN /\ pc' = "returned"
                /\ result' = chunk.err
                /\ UNCHANGED <<consumed, pending>>
           ELSE IF chunk.content.kind = "badjson"
           THEN /\ pc' = "returned"
                /\ result' = "unmarshal"
                /\ consumed' = consumed + 1
                /\ UNCHANGED pending
           ELSE /\ pending' = LoopOrder(chunk.content.resourceLogs)
                /\ consumed' = consumed + 1
                /\ UNCHANGED <<pc, result>>
    /\ UNCHANGED <<fl, file, now, out, trace, lastClock, runNo, prevOut, prevResult>>

\* one iteration of the innermost loop
VisitRecord ==
    /\ pc = "loop"
    /\ pending # <<>>
    /\ LET logRecord == Head(pending)
           done == ProcessRecord(logRecord, fl, now)
       IN  /\ trace' = Append(trace, [rec |-> logRecord, outcome |-> done.outcome,
                                      frame |-> consumed])
           /\ out' = IF done.outcome = "emit" THEN Append(out, done.line) ELSE out
           /\ IF done.outcome = "panic"
              THEN pc' = "panicked" /\ result' = "panic"
              ELSE UNCHANGED <<pc, result>>
    /\ pending' = Tail(pending)
    /\ lastClock' = now
    /\ UNCHANGED <<fl, file, now, consumed, runNo, prevOut, prevResult>>

\* the wall clock advances
Tick ==
    /\ now < MaxNow
    /\ now' = now + 1
    /\ UNCHANGED <<fl, file, pc, result, consumed, pending, out, trace, lastClock,
                   runNo, prevOut, prevResult>>

\* the program is run a second time on the same file with the same flags
RunAgain ==
    /\ pc # "loop"
    /\ runNo = 1
    /\ runNo' = 2
    /\ prevOut' = out
    /\ prevResult' = result
    /\ pc' = "loop"
    /\ result' = "none"
    /\ consumed' = 0
    /\ pending' = <<>>
    /\ out' = <<>>
    /\ trace' = <<>>
    /\ lastClock' = 0
    /\ UNCHANGED <<fl, file, now>>

Next == ReadChunk \/ VisitRecord \/ Tick \/ RunAgain

Spec == Init /\ [][Next]_vars

(***************************************************************************)
(* Vocabulary of the properties, stated without the operators above where  *)
(* the property is about them.                                             *)
(***************************************************************************)
Last == trace[Len(trace)]
Finished == pc # "loop"

TagText(logRecord) == stringAttributeByKey(logRecord.attributes, "fluent.tag")
TimeText(logRecord) == stringAttributeByKey(logRecord.attributes, "time")

\* the record got as far as the parsing of its fluent tag
ReachedTag(entry) == entry.outcome \notin {"skip_time", "skip_since"}

CountOf(c, s) == Cardinality({ i \in 1..Len(s) : s[i] = c })

\* p is an initial segment of s
StartsWith(s, p) == \E k \in 0..Len(s) : [i \in 1..k |-> s[i]] = p

\* the positions at which the fixed prefix occurs
PrefixEnds(t) ==
    { e \in Len(TagPrefix)..Len(t) :
        \A i \in 1..Len(TagPrefix) : t[e - Len(TagPrefix) + i] = TagPrefix[i] }

\* the text after the first occurrence of the fixed prefix
AfterPrefix(t) ==
    LET e == CHOOSE x \in PrefixEnds(t) : \A y \in PrefixEnds(t) : x <= y
    IN  [i \in 1..(Len(t) - e) |-> t[e + i]]

\* the tag lacks the prefix, or has not 3 underscore tokens, or its third has no hyphen
Malformed(t) ==
    \/ PrefixEnds(t) = {}
    \/ CountOf("_", AfterPrefix(t)) # 2
    \/ LET rest == AfterPrefix(t)
           u == Max({ i \in 1..Len(rest) : rest[i] = "_" })
       IN  \A i \in (u + 1)..Len(rest) : rest[i] # "-"

(***************************************************************************)
(* C1: parseFluentTag returns either the tag (namespace = 2nd token,       *)
(* pod = 1st token, container = 3rd token up to its last hyphen) or a      *)
(* parse failure, never a crash; it fails whenever the prefix is missing,  *)
(* the rest has not exactly 3 underscore tokens, or the third token has no *)
(* hyphen, and run then skips the record and goes on.                      *)
(***************************************************************************)
C1_TagParsesOrFails ==
    (trace # <<>> /\ ReachedTag(Last)) =>
        LET t == TagText(Last.rec)
            parsed == parseFluentTag(t)
        IN  /\ parsed.outcome \in {"ok", "error"}
            /\ Malformed(t) =>
                 /\ parsed.outcome = "error"
                 /\ Last.outcome = "skip_tag"
                 /\ pc # "panicked"
            /\ ~Malformed(t) =>
                 /\ parsed.outcome = "ok"
                 /\ LET tokens == Split(AfterPrefix(t), <<"_">>)
                    IN  /\ parsed.tag.namespace = tokens[2]
                        /\ parsed.tag.pod = tokens[1]
                        /\ StartsWith(tokens[3], parsed.tag.container \o <<"-">>)
                        /\ CountOf("-", tokens[3]) = CountOf("-", parsed.tag.container) + 1

(***************************************************************************)
(* C2: with no time filter (since = 0), a record whose "time" attribute is *)
(* absent or unparseable is still emitted when its fluent tag parses and   *)
(* the prefix filters match.                                               *)
(***************************************************************************)
C2_UntimedRecordEmitted ==
    (/\ trace # <<>>
     /\ fl.since = 0
     /\ ParseRFC3339(TimeText(Last.rec)).err
     /\ parseFluentTag(TagText(Last.rec)).outcome = "ok"
     /\ matches(parseFluentTag(TagText(Last.rec)).tag, fl))
        => Last.outcome = "emit"

(***************************************************************************)
(* C3: run returns nil only when the length read finds no byte left at a   *)
(* frame boundary; when a length N was read and fewer than N payload bytes *)
(* follow (none at all included), run returns an error and no record of    *)
(* that frame is emitted.                                                  *)
(***************************************************************************)
LastFrameNo == Len(file.frames)

\* the last frame's length prefix is whole and its payload is cut short
PayloadCut ==
    /\ file.frames # <<>>
    /\ file.missing >= 1
    /\ file.missing <= file.frames[LastFrameNo].size

C3_TruncatedFrameIsError ==
    (pc = "returned") =>
        /\ result = "nil" => (file.missing = 0 /\ consumed = LastFrameNo)
        /\ (PayloadCut /\ consumed = LastFrameNo - 1) =>
             (result # "nil" /\ \A i \in 1..Len(trace) : trace[i].frame < LastFrameNo)

(***************************************************************************)
(* C4: a fatal error in chunk k (truncated frame, decompression failure,   *)
(* batch JSON that fails to unmarshal) makes run return an error at once:  *)
(* no record of chunk k or of a later chunk is visited, no further frame   *)
(* is read, and the output is that of chunks 1..k-1.                       *)
(***************************************************************************)
FatalFrame(k) ==
    \/ file.frames[k].content.kind \in {"corrupt", "badjson"}
    \/ k = LastFrameNo /\ file.missing > 0

FatalFrames == { k \in 1..LastFrameNo : FatalFrame(k) }

C4_FatalErrorStopsRun ==
    (pc = "returned" /\ FatalFrames # {}) =>
        LET k == Min(FatalFrames)
        IN  /\ result \notin {"nil", "none"}
            /\ consumed <= k
            /\ \A i \in 1..Len(trace) : trace[i].frame < k
            /\ Len(out) = Cardinality({ i \in 1..Len(trace) : trace[i].outcome = "emit" })

(***************************************************************************)
(* C5: a record-level extraction failure never aborts the run: on a file   *)
(* without a fatal frame run visits every record of every chunk and        *)
(* returns nil, and the failed records add nothing to the output.          *)
(***************************************************************************)
RECURSIVE CountRecords(_)
CountRecords(frames) ==
    IF frames = <<>> THEN 0
    ELSE Len(LoopOrder(Head(frames).content.resourceLogs)) + CountRecords(Tail(frames))

C5_RecordFailureNeverAborts ==
    (Finished /\ FatalFrames = {}) =>
        /\ pc = "returned"
        /\ result = "nil"
        /\ Len(trace) = CountRecords(file.frames)
        /\ Len(out) = Cardinality({ i \in 1..Len(trace) : trace[i].outcome = "emit" })

(***************************************************************************)
(* C6: lines are emitted in input decode order: frames in file order, and  *)
(* within a frame resourceLogs, then scopeLogs, then logRecords in their   *)
(* original order; every record of a chunk is visited before the next      *)
(* chunk is read, so the output is the emitted records' lines in that      *)
(* order.                                                                  *)
(***************************************************************************)
\* <<frame, resourceLog, scopeLog, record>> index of every record of the first n frames
Positions(n) ==
    UNION { UNION { UNION { { <<f, i, j, k>> :
                k \in 1..Len(file.frames[f].content.resourceLogs[i].scopeLogs[j].logRecords) } :
              j \in 1..Len(file.frames[f].content.resourceLogs[i].scopeLogs) } :
            i \in 1..Len(file.frames[f].content.resourceLogs) } :
          f \in 1..n }

LexLess(p, q) ==
    \E d \in 1..4 : p[d] < q[d] /\ \A e \in 1..(d - 1) : p[e] = q[e]

RecordAt(p) ==
    file.frames[p[1]].content.resourceLogs[p[2]].scopeLogs[p[3]].logRecords[p[4]]

\* the records of the first n frames, by increasing position
ExpectedVisits(n) ==
    [ r \in 1..Cardinality(Positions(n)) |->
        LET p == CHOOSE q \in Positions(n) :
                     Cardinality({ o \in Positions(n) : LexLess(o, q) }) = r - 1
        IN  [rec |-> RecordAt(p), frame |-> p[1]] ]

Emitted == { i \in 1..Len(trace) : trace[i].outcome = "emit" }

\* the line of a record that is emitted
LineOf(logRecord) == ProcessRecord(logRecord, NoFilter, 0).line

C6_DecodeOrder ==
    LET expected == ExpectedVisits(consumed)
    IN  /\ Len(trace) + Len(pending) = Len(expected)
        /\ \A i \in 1..Len(trace) :
             trace[i].rec = expected[i].rec /\ trace[i].frame = expected[i].frame
        /\ \A i \in 1..Len(pending) :
             /\ pending[i] = expected[Len(trace) + i].rec
             /\ expected[Len(trace) + i].frame = consumed
        /\ Len(out) = Cardinality(Emitted)
        /\ \A i \in Emitted :
             out[Cardinality({ e \in Emitted : e <= i })] = LineOf(trace[i].rec)

\* a finished run that emitted two different records from two different frames
C6_Witness ==
    /\ pc = "returned"
    /\ Len(out) >= 2
    /\ out[1] # out[2]
    /\ \E i, j \in 1..Len(trace) :
         /\ i < j
         /\ trace[i].frame < trace[j].frame
         /\ trace[i].outcome = "emit" /\ trace[j].outcome = "emit"
         /\ trace[i].rec # trace[j].rec

(***************************************************************************)
(* C7: every passing record writes exactly one newline-terminated line     *)
(* namespace/pod<TAB>container<TAB>[timestamp<TAB>]message and a skipped   *)
(* record writes nothing; the one-record file tagged                       *)
(* kube.var.log.containers.web-1_prod_app-deadbeef.log with message        *)
(* "boot ok" and no time filter yields the single line                     *)
(* prod/web-1<TAB>app<TAB>boot ok, with no timestamp column.               *)
(***************************************************************************)
ExampleLine ==
    <<"p","r","o","d","/","w","e","b","-","1","\t","a","p","p","\t",
      "b","o","o","t"," ","o","k","\n">>

C7_ExampleLine ==
    /\ Len(out) = Cardinality(Emitted)
    /\ \A n \in 1..Len(out) : out[n][Len(out[n])] = "\n" /\ CountOf("\n", out[n]) = 1
    /\ (/\ pc = "returned"
        /\ fl = NoFilter
        /\ file \in { OneRecordFile(r) : r \in {ExampleRecord, ExampleTimedRecord} })
         => out = <<ExampleLine>>

(***************************************************************************)
(* C8: matches(tag, by) is true exactly when, for each of namespace, pod   *)
(* and container, the criterion is empty or the tag's field starts with    *)
(* it (case-sensitive); all non-empty criteria must hold together.         *)
(***************************************************************************)
Passes(field, criterion) == criterion = <<>> \/ StartsWith(field, criterion)

C8_PrefixFilter ==
    (trace # <<>> /\ Last.outcome \in {"emit", "skip_match"}) =>
        LET tag == parseFluentTag(TagText(Last.rec)).tag
        IN  (Last.outcome = "emit") <=>
                /\ Passes(tag.namespace, fl.namespace)
                /\ Passes(tag.pod, fl.pod)
                /\ Passes(tag.container, fl.container)

\* namespace and pod criteria hold, the container criterion fails by case alone
C8_Witness ==
    /\ trace # <<>>
    /\ Last.outcome = "skip_match"
    /\ fl.namespace = <<"a">> /\ fl.pod = <<"a", "b">> /\ fl.container = <<"a">>
    /\ parseFluentTag(TagText(Last.rec)).tag =
         [namespace |-> <<"a", "b">>, pod |-> <<"a", "b">>, container |-> <<"A">>]

(***************************************************************************)
(* C9: with a non-zero since, a record with a parsed timestamp is skipped  *)
(* by the time check exactly when its instant is strictly before           *)
(* now - since (an instant equal to the threshold passes); with since = 0  *)
(* the time check skips nothing.  So a record 10 minutes old is excluded   *)
(* for since = 5m and included for since = 0 and since = 15m.              *)
(***************************************************************************)
C9_TimeWindow ==
    (trace # <<>> /\ ~ParseRFC3339(TimeText(Last.rec)).err) =>
        LET t == ParseRFC3339(TimeText(Last.rec)).t
        IN  /\ (Last.outcome = "skip_since") <=>
                 (fl.since # 0 /\ t.wall - t.off < lastClock - fl.since)
            /\ (/\ TagText(Last.rec) = GoodTag
                /\ fl.namespace = <<>> /\ fl.pod = <<>> /\ fl.container = <<>>
                /\ Last.outcome # "skip_since")
                 => Last.outcome = "emit"

\* a timestamp equal to the threshold passes a non-zero since
C9_Witness ==
    /\ trace # <<>>
    /\ fl.since = 1
    /\ TimeText(Last.rec) = <<"3", "+", "1">>
    /\ lastClock = 3
    /\ Last.outcome = "emit"

(***************************************************************************)
(* C10: running the pipeline twice on the same file with the same filter   *)
(* settings produces identical output, whatever the wall-clock time of     *)
(* each run.                                                               *)
(***************************************************************************)
C10_SameOutputAnyClock ==
    (runNo = 2 /\ Finished) => out = prevOut

\* C10 as amended: with the time filter disabled (since = 0) the two runs
\* produce identical output and the same result, whatever the clock reads
C10_SameOutputNoSince ==
    (runNo = 2 /\ Finished /\ fl.since = 0) => (out = prevOut /\ result = prevResult)

\* a second run without time filter that has written a line, the clock at its end
C10_Witness ==
    /\ runNo = 2
    /\ pc = "returned"
    /\ fl.since = 0
    /\ Len(out) >= 1
    /\ now = MaxNow

====
